---- MODULE Spec2Model ----
(***************************************************************************)
(* Model of RLTKBandit, the contextual-bandit orchestrator of CLAI          *)
(* (clai/server/orchestration/patterns/rltk_bandit_orchestrator).           *)
(*                                                                          *)
(* Spec      : one engine per process, every handler is one atomic step;    *)
(*             the process may restart over the same persistence store.     *)
(* SpecConc  : one engine shared by several sessions; choose_action and     *)
(*             record_transition run in threads that interleave between     *)
(*             the statements of the handlers (the code takes no lock).     *)
(*                                                                          *)
(* Confidences are kept in tenths (0.1 is 1, 0.6 is 6, 0.9 is 9).           *)
(* The action_order dict is a sequence of <<name, idx>> entries in          *)
(* insertion order, the order dict.items() iterates in.                     *)
(***************************************************************************)
EXTENDS Integers, Sequences, FiniteSets, TLC

VARIABLES phase, agent, n_actions, action_order, warm_start, store,
          config_num_actions, restarts, ws_calls, last, th

vars == <<phase, agent, n_actions, action_order, warm_start, store,
          config_num_actions, restarts, ws_calls, last, th>>

(***************************************************************************)
(* Bounds                                                                   *)
(***************************************************************************)
MaxSkills == 2
MaxCands == 2
MaxArms == 3
MaxTrial == 1
MaxRestarts == 1
MaxThreads == 2

SkillNames == <<"A", "B", "C", "D">>
Skills == {SkillNames[i] : i \in 1..MaxSkills}
Confidences == {6, 9}
Commands == {"ls"}
TrialIds == 1..MaxTrial
Threads == 1..MaxThreads

(***************************************************************************)
(* Program constants                                                        *)
(***************************************************************************)
noop_action == "NOOP"
noop_confidence == 1

None == "None"
NoAgent == [num_actions |-> 0, ws |-> 0, pending |-> {}]
NoAction == [agent_owner |-> None, confidence |-> 0, suggested_command |-> None]
NoCommand == [command_id |-> 0, command |-> None]

(***************************************************************************)
(* Python dict helpers over the insertion-ordered action_order              *)
(***************************************************************************)
Keys(ao) == {ao[i].name : i \in DOMAIN ao}

Values(ao) == {ao[i].idx : i \in DOMAIN ao}

DictGet(ao, k) == ao[CHOOSE i \in DOMAIN ao : ao[i].name = k].idx

DictSet(ao, k, v) ==
    IF k \in Keys(ao)
    THEN [i \in DOMAIN ao |-> IF ao[i].name = k THEN [name |-> k, idx |-> v] ELSE ao[i]]
    ELSE Append(ao, [name |-> k, idx |-> v])

MaxOf(S) == CHOOSE m \in S : \A s \in S : s <= m

(***************************************************************************)
(* Candidate actions and the inputs of choose_action                        *)
(***************************************************************************)
Action(owner, conf, cmd) ==
    [agent_owner |-> owner, confidence |-> conf, suggested_command |-> cmd]

Candidates == {Action(s, c, "fix") : s \in Skills, c \in Confidences}

CandidateLists == UNION {[1..n -> Candidates] : n \in 0..MaxCands}

\* candidate_actions is None, a list, or a single Action, which line 148 wraps
\* in a one-element list: list holds the list the rest of the handler iterates
CandidateInputs ==
    {[kind |-> "None", list |-> <<>>]}
    \cup {[kind |-> "List", list |-> l] : l \in CandidateLists}
    \cup {[kind |-> "Action", list |-> <<a>>] : a \in Candidates}

CommandStates == {[command_id |-> t, command |-> c] : t \in TrialIds, c \in Commands}

calculate_confidence(action) == action.confidence

(***************************************************************************)
(* The bandit policy (rltk agent): an opaque capability.  Its state is the  *)
(* dimensionality it was built with, the number of warm starts applied and  *)
(* the trials chosen and not yet observed.                                  *)
(***************************************************************************)
instantiate_from_file(num) == [num_actions |-> num, ws |-> 0, pending |-> {}]

agent_warm_start(a) == [a EXCEPT !.ws = @ + 1]

agent_choose(a, t_id) == [a EXCEPT !.pending = @ \cup {t_id}]

agent_observe(a, t_id) == [a EXCEPT !.pending = @ \ {t_id}]

(***************************************************************************)
(* Persistence store (Orchestrator.save / Orchestrator.load)                *)
(***************************************************************************)
EmptyStore == [present |-> FALSE, agent |-> NoAgent, action_order |-> <<>>,
               warm_start |-> None]

StateGet(state, key, default) ==
    IF ~state.present THEN default
    ELSE IF key = "agent" THEN state.agent
    ELSE IF key = "action_order" THEN state.action_order
    ELSE state.warm_start

get_orchestrator_state(ag, ao, ws) ==
    [present |-> TRUE, agent |-> ag, action_order |-> ao, warm_start |-> ws]

(***************************************************************************)
(* Registry                                                                 *)
(***************************************************************************)
add_no_early_return(ao, agent_name) ==
    DictSet(ao, agent_name, MaxOf(Values(ao)) + 1)

add_without_increment(ao, agent_name) ==
    IF agent_name \in Keys(ao) THEN ao
    ELSE DictSet(ao, agent_name, MaxOf(Values(ao)))

__add_to_action_order__(ao, agent_name) ==
    IF agent_name \in Keys(ao) THEN ao
    ELSE DictSet(ao, agent_name, MaxOf(Values(ao)) + 1)

(***************************************************************************)
(* Context builder.  The context holds slot s at sequence position s+1.     *)
(* A write at a position past the end of the list raises IndexError, which  *)
(* leaves the registrations made so far in place.                           *)
(***************************************************************************)
RECURSIVE build_loop(_, _, _, _, _)
build_loop(cands, i, ao, ctx, log) ==
    IF i > Len(cands)
    THEN [ok |-> TRUE, ao |-> ao, ctx |-> ctx, log |-> log]
    ELSE LET a == cands[i]
             ao2 == __add_to_action_order__(ao, a.agent_owner)
             log2 == Append(log, [name |-> a.agent_owner, before |-> ao, after |-> ao2])
             pos == DictGet(ao2, a.agent_owner)
         IN  IF pos >= Len(ctx)
             THEN [ok |-> FALSE, ao |-> ao2, ctx |-> ctx, log |-> log2]
             ELSE build_loop(cands, i + 1, ao2,
                             [ctx EXCEPT ![pos + 1] = calculate_confidence(a)], log2)

\* a bug: the no-op slot is left at 0.0
build_context_no_baseline(ao, n, cands) ==
    IF DictGet(ao, noop_action) >= n
    THEN [ok |-> FALSE, ao |-> ao, ctx |-> [i \in 1..n |-> 0], log |-> <<>>]
    ELSE build_loop(cands, 1, ao, [i \in 1..n |-> 0], <<>>)

__build_context__(ao, n, cands) ==
    LET noop_pos == DictGet(ao, noop_action)
        zeros == [i \in 1..n |-> 0]
    IN  IF noop_pos >= n
        THEN [ok |-> FALSE, ao |-> ao, ctx |-> zeros, log |-> <<>>]
        ELSE build_loop(cands, 1, ao, [zeros EXCEPT ![noop_pos + 1] = noop_confidence], <<>>)

(***************************************************************************)
(* Reverse lookup of the chosen slot                                        *)
(***************************************************************************)
suggested_agent(ao, action_idx) ==
    IF \E i \in DOMAIN ao : ao[i].idx = action_idx
    THEN LET first == CHOOSE i \in DOMAIN ao :
                         /\ ao[i].idx = action_idx
                         /\ \A j \in DOMAIN ao : ao[j].idx = action_idx => i <= j
         IN  ao[first].name
    ELSE None

\* a bug: falls back to the first candidate when the chosen slot has none
choose_first_on_miss(ao, action_idx, cands) ==
    LET sa == suggested_agent(ao, action_idx)
    IN  IF \E i \in DOMAIN cands : cands[i].agent_owner = sa
        THEN cands[CHOOSE i \in DOMAIN cands :
                      /\ cands[i].agent_owner = sa
                      /\ \A j \in DOMAIN cands : cands[j].agent_owner = sa => i <= j]
        ELSE cands[1]

__choose_action__(ao, action_idx, cands) ==
    LET sa == suggested_agent(ao, action_idx)
    IN  IF sa = noop_action \/ sa = None THEN NoAction
        ELSE IF \E i \in DOMAIN cands : cands[i].agent_owner = sa
             THEN LET first == CHOOSE i \in DOMAIN cands :
                                  /\ cands[i].agent_owner = sa
                                  /\ \A j \in DOMAIN cands : cands[j].agent_owner = sa => i <= j
                  IN  cands[first]
             ELSE NoAction

(***************************************************************************)
(* Rewards                                                                  *)
(***************************************************************************)
__compute_pre_transition_reward__(prev_state, post_state) == 0

__compute_post_transition_reward__(prev_state, post_state) == 0

(***************************************************************************)
(* Handlers as functions of the engine state and their inputs               *)
(***************************************************************************)
\* a bug: the persisted warm_start flag is ignored
load_state_flag_always_true(state, cfg) ==
    LET a == StateGet(state, "agent", NoAgent)
        ag == IF a = NoAgent THEN instantiate_from_file(cfg) ELSE a
        o == StateGet(state, "action_order", <<>>)
    IN  [agent |-> ag,
         action_order |-> IF o = <<>> THEN <<[name |-> noop_action, idx |-> 0]>> ELSE o,
         n_actions |-> ag.num_actions,
         warm_start |-> "True"]

\* a bug: state.get('warm_start', False)
load_state_default_flag_false(state, cfg) ==
    LET a == StateGet(state, "agent", NoAgent)
        ag == IF a = NoAgent THEN instantiate_from_file(cfg) ELSE a
        o == StateGet(state, "action_order", <<>>)
    IN  [agent |-> ag,
         action_order |-> IF o = <<>> THEN <<[name |-> noop_action, idx |-> 0]>> ELSE o,
         n_actions |-> ag.num_actions,
         warm_start |-> StateGet(state, "warm_start", "False")]

load_state(state, cfg) ==
    LET a == StateGet(state, "agent", NoAgent)
        ag == IF a = NoAgent THEN instantiate_from_file(cfg) ELSE a
        o == StateGet(state, "action_order", <<>>)
        default_action_order == <<[name |-> noop_action, idx |-> 0]>>
    IN  [agent |-> ag,
         action_order |-> IF o = <<>> THEN default_action_order ELSE o,
         n_actions |-> ag.num_actions,
         warm_start |-> StateGet(state, "warm_start", "True")]

\* a bug: the except clause logs and does not re-raise
warm_start_swallowed(ag, ao, ws, st, outcome) ==
    IF outcome = "datagen"
    THEN [agent |-> ag, warm_start |-> ws, store |-> st, phase |-> "Ready",
          called |-> FALSE]
    ELSE IF outcome = "policy"
    THEN [agent |-> ag, warm_start |-> ws, store |-> st, phase |-> "Ready",
          called |-> TRUE]
    ELSE IF outcome = "save"
    THEN [agent |-> agent_warm_start(ag), warm_start |-> "False", store |-> st,
          phase |-> "Ready", called |-> TRUE]
    ELSE [agent |-> agent_warm_start(ag), warm_start |-> "False",
          store |-> get_orchestrator_state(agent_warm_start(ag), ao, "False"),
          phase |-> "Ready", called |-> TRUE]

\* outcome: "ok", or the step that raises: "datagen", "policy", "save"
warm_start_orchestrator(ag, ao, ws, st, outcome) ==
    IF outcome = "datagen"
    THEN [agent |-> ag, warm_start |-> ws, store |-> st, phase |-> "Failed",
          called |-> FALSE]
    ELSE IF outcome = "policy"
    THEN [agent |-> ag, warm_start |-> ws, store |-> st, phase |-> "Failed",
          called |-> TRUE]
    ELSE IF outcome = "save"
    THEN [agent |-> agent_warm_start(ag), warm_start |-> "False", store |-> st,
          phase |-> "Failed", called |-> TRUE]
    ELSE [agent |-> agent_warm_start(ag), warm_start |-> "False",
          store |-> get_orchestrator_state(agent_warm_start(ag), ao, "False"),
          phase |-> "Ready", called |-> TRUE]

Returned(a) == IF a = NoAction THEN [kind |-> "None", action |-> NoAction]
               ELSE [kind |-> "Action", action |-> a]

Raised == [kind |-> "Raised", action |-> NoAction]

\* a bug: 'if candidate_actions is None' instead of 'if not candidate_actions'
no_candidates_none_only(input) == input.kind = "None"

\* not candidate_actions: None and the empty list are both falsy
no_candidates(input) == input.list = <<>>

\* a bug: the None of __choose_action__ is returned as it is
suggested_no_fallback(sug, command) == Returned(sug)

\* if suggested_action is None: Action(suggested_command=command.command)
suggested_or_fallback(sug, command) ==
    IF sug = NoAction
    THEN Returned(Action(None, 0, command.command))
    ELSE Returned(sug)

\* pick: the arm policy.choose returns, or -1 when policy.choose raises
choose_action(ao, n, ag, command, input, pick) ==
    IF no_candidates(input)
    THEN [ao |-> ao, agent |-> ag, built |-> FALSE, ctx |-> <<>>, log |-> <<>>,
          chose |-> FALSE, idx |-> -1, inner |-> NoAction,
          result |-> Returned(NoAction)]
    ELSE LET b == __build_context__(ao, n, input.list)
         IN  IF ~b.ok
             THEN [ao |-> b.ao, agent |-> ag, built |-> FALSE, ctx |-> b.ctx,
                   log |-> b.log, chose |-> FALSE, idx |-> -1, inner |-> NoAction,
                   result |-> Raised]
             ELSE IF pick = -1
             THEN [ao |-> b.ao, agent |-> ag, built |-> TRUE, ctx |-> b.ctx,
                   log |-> b.log, chose |-> TRUE, idx |-> -1, inner |-> NoAction,
                   result |-> Raised]
             ELSE LET sug == __choose_action__(b.ao, pick, input.list)
                  IN  [ao |-> b.ao, agent |-> agent_choose(ag, command.command_id),
                       built |-> TRUE, ctx |-> b.ctx, log |-> b.log,
                       chose |-> TRUE, idx |-> pick, inner |-> sug,
                       result |-> suggested_or_fallback(sug, command)]

\* a bug: the engine state is saved after the observations
record_transition_saves(ag, ao, ws, st) == get_orchestrator_state(ag, ao, ws)

\* record_transition never calls self.save(): the store is left as it is
record_transition_store(ag, ao, ws, st) == st

\* a bug: no try/except around the two observe calls
record_transition_no_except(ag, id_pre, id_post, ok1, ok2) ==
    LET o1 == [t_id |-> id_pre, reward |-> 0, ok |-> ok1]
        o2 == [t_id |-> id_post, reward |-> 0, ok |-> ok2]
    IN  IF ~ok1
        THEN [agent |-> ag, observes |-> <<o1>>, result |-> Raised]
        ELSE IF ~ok2
        THEN [agent |-> agent_observe(ag, id_pre), observes |-> <<o1, o2>>,
              result |-> Raised]
        ELSE [agent |-> agent_observe(agent_observe(ag, id_pre), id_post),
              observes |-> <<o1, o2>>, result |-> Returned(NoAction)]

\* ok1, ok2: whether the first and the second policy.observe return normally
record_transition(ag, id_pre, id_post, ok1, ok2) ==
    LET pre_transition_reward == __compute_pre_transition_reward__(id_pre, id_post)
        post_transition_reward == __compute_post_transition_reward__(id_post, NoCommand)
        o1 == [t_id |-> id_pre, reward |-> pre_transition_reward, ok |-> ok1]
        o2 == [t_id |-> id_post, reward |-> post_transition_reward, ok |-> ok2]
    IN  IF ~ok1
        THEN [agent |-> ag, observes |-> <<o1>>, result |-> Returned(NoAction)]
        ELSE IF ~ok2
        THEN [agent |-> agent_observe(ag, id_pre), observes |-> <<o1, o2>>,
              result |-> Returned(NoAction)]
        ELSE [agent |-> agent_observe(agent_observe(ag, id_pre), id_post),
              observes |-> <<o1, o2>>, result |-> Returned(NoAction)]

(***************************************************************************)
(* State                                                                    *)
(***************************************************************************)
NoInput == [kind |-> "None", list |-> <<>>]

\* what the last handler was called with and what it did
NoLast == [op |-> "none", input |-> NoInput, command |-> NoCommand,
           before |-> <<>>, built |-> FALSE, ctx |-> <<>>, log |-> <<>>,
           chose |-> FALSE, idx |-> -1, inner |-> NoAction,
           result |-> Returned(NoAction), observes |-> <<>>, outcome |-> None,
           called |-> FALSE, flag_before |-> None, store_before |-> EmptyStore,
           ids |-> <<>>]

IdleThread == [pc |-> "idle", cands |-> <<>>, i |-> 0, maxv |-> 0, ctx |-> <<>>,
               t_id |-> 0, t_id2 |-> 0]

Init ==
    /\ phase = "Uninitialized"
    /\ agent = NoAgent
    /\ n_actions = 0
    /\ action_order = <<>>
    /\ warm_start = None
    /\ store = EmptyStore
    /\ config_num_actions \in 1..MaxArms
    /\ restarts = 0
    /\ ws_calls = 0
    /\ last = NoLast
    /\ th = [t \in Threads |-> IdleThread]

(***************************************************************************)
(* Construction: __init__ is load_state followed by warm_start_orchestrator *)
(***************************************************************************)
LoadState ==
    /\ phase = "Uninitialized"
    /\ LET l == load_state(store, config_num_actions)
       IN  /\ agent' = l.agent
           /\ action_order' = l.action_order
           /\ n_actions' = l.n_actions
           /\ warm_start' = l.warm_start
    /\ phase' = "Loaded"
    /\ last' = [NoLast EXCEPT !.op = "load_state", !.store_before = store]
    /\ UNCHANGED <<store, config_num_actions, restarts, ws_calls, th>>

WarmStartOrchestrator ==
    /\ phase = "Loaded"
    /\ \E outcome \in {"ok", "datagen", "policy", "save"} :
         LET w == warm_start_orchestrator(agent, action_order, warm_start, store, outcome)
         IN  /\ agent' = w.agent
             /\ warm_start' = w.warm_start
             /\ store' = w.store
             /\ phase' = w.phase
             /\ ws_calls' = IF w.called THEN ws_calls + 1 ELSE ws_calls
             /\ last' = [NoLast EXCEPT !.op = "warm_start_orchestrator",
                                       !.outcome = outcome,
                                       !.called = w.called,
                                       !.before = action_order,
                                       !.flag_before = warm_start,
                                       !.store_before = store]
    /\ UNCHANGED <<n_actions, action_order, config_num_actions, restarts, th>>

\* what policy.choose may answer: an arm of its num_actions arms, or -1 for an
\* exception; a call that never reaches policy.choose has the single outcome -1
Picks(ao, n, input) ==
    IF input.list # <<>> /\ __build_context__(ao, n, input.list).ok
    THEN -1..(n - 1)
    ELSE {-1}

\* the last step was a serving handler whose result the caller has not taken
InHandler == last.op \in {"choose_action", "record_transition"}

(***************************************************************************)
(* Serving, one handler per step                                            *)
(***************************************************************************)
ChooseAction ==
    /\ phase = "Ready"
    /\ ~InHandler
    /\ \E command \in CommandStates, input \in CandidateInputs :
       \E pick \in Picks(action_order, n_actions, input) :
         LET c == choose_action(action_order, n_actions, agent, command, input, pick)
         IN  /\ action_order' = c.ao
             /\ agent' = c.agent
             /\ last' = [NoLast EXCEPT !.op = "choose_action",
                                       !.input = input,
                                       !.command = command,
                                       !.before = action_order,
                                       !.built = c.built,
                                       !.ctx = c.ctx,
                                       !.log = c.log,
                                       !.chose = c.chose,
                                       !.idx = c.idx,
                                       !.inner = c.inner,
                                       !.result = c.result,
                                       !.flag_before = warm_start,
                                       !.store_before = store]
    /\ UNCHANGED <<phase, n_actions, warm_start, store, config_num_actions,
                   restarts, ws_calls, th>>

RecordTransition ==
    /\ phase = "Ready"
    /\ ~InHandler
    /\ \E id_pre \in TrialIds, id_post \in TrialIds, ok1 \in BOOLEAN, ok2 \in BOOLEAN :
         LET r == record_transition(agent, id_pre, id_post, ok1, ok2)
         IN  /\ agent' = r.agent
             /\ store' = record_transition_store(r.agent, action_order, warm_start, store)
             /\ last' = [NoLast EXCEPT !.op = "record_transition",
                                       !.before = action_order,
                                       !.ids = <<id_pre, id_post>>,
                                       !.observes = r.observes,
                                       !.result = r.result,
                                       !.flag_before = warm_start,
                                       !.store_before = store]
    /\ UNCHANGED <<phase, n_actions, action_order, warm_start,
                   config_num_actions, restarts, ws_calls, th>>

\* choose_action or record_transition hands its result to the caller, which
\* issues its next call only after that; the record of the call is dropped
Return ==
    /\ InHandler
    /\ last' = [NoLast EXCEPT !.op = "returned"]
    /\ UNCHANGED <<phase, agent, n_actions, action_order, warm_start, store,
                   config_num_actions, restarts, ws_calls, th>>

\* the process ends and a new one constructs an engine over the same store
Restart ==
    /\ phase \in {"Ready", "Failed"}
    /\ restarts < MaxRestarts
    /\ phase' = "Uninitialized"
    /\ agent' = NoAgent
    /\ n_actions' = 0
    /\ action_order' = <<>>
    /\ warm_start' = None
    /\ restarts' = restarts + 1
    /\ last' = [NoLast EXCEPT !.op = "restart", !.store_before = store]
    /\ UNCHANGED <<store, config_num_actions, ws_calls, th>>

Next ==
    \/ LoadState
    \/ WarmStartOrchestrator
    \/ ChooseAction
    \/ RecordTransition
    \/ Return
    \/ Restart

Spec == Init /\ [][Next]_vars

(***************************************************************************)
(* Serving from concurrent sessions.  Each thread runs one handler at a     *)
(* time; a step is one statement of the handler, the unit at which the      *)
(* interpreter may switch threads.  The handlers take no lock.              *)
(***************************************************************************)
Goto(t, rec) == th' = [th EXCEPT ![t] = rec]

CurrentOwner(t) == th[t].cands[th[t].i].agent_owner

\* choose_action up to the first statements of __build_context__ (144-191)
T_ChooseAction(t) ==
    /\ phase = "Ready"
    /\ th[t].pc = "idle"
    /\ \E command \in CommandStates, cands \in CandidateLists :
         LET noop_pos == DictGet(action_order, noop_action)
             zeros == [i \in 1..n_actions |-> 0]
         IN  IF cands = <<>> \/ noop_pos >= n_actions
             THEN Goto(t, IdleThread)
             ELSE Goto(t, [IdleThread EXCEPT
                              !.pc = "add_check", !.cands = cands, !.i = 1,
                              !.t_id = command.command_id,
                              !.ctx = [zeros EXCEPT ![noop_pos + 1] = noop_confidence]])
    /\ UNCHANGED <<phase, agent, n_actions, action_order, warm_start, store,
                   config_num_actions, restarts, ws_calls, last>>

\* __add_to_action_order__: if agent_name in self._action_order: return (205)
T_AddCheck(t) ==
    /\ th[t].pc = "add_check"
    /\ IF CurrentOwner(t) \in Keys(action_order)
       THEN Goto(t, [th[t] EXCEPT !.pc = "ctx_write"])
       ELSE Goto(t, [th[t] EXCEPT !.pc = "add_max"])
    /\ UNCHANGED <<phase, agent, n_actions, action_order, warm_start, store,
                   config_num_actions, restarts, ws_calls, last>>

\* max_action_order = max(self._action_order.values()) (208)
T_AddMax(t) ==
    /\ th[t].pc = "add_max"
    /\ Goto(t, [th[t] EXCEPT !.pc = "add_write", !.maxv = MaxOf(Values(action_order))])
    /\ UNCHANGED <<phase, agent, n_actions, action_order, warm_start, store,
                   config_num_actions, restarts, ws_calls, last>>

\* self._action_order[agent_name] = max_action_order + 1 (209)
T_AddWrite(t) ==
    /\ th[t].pc = "add_write"
    /\ action_order' = DictSet(action_order, CurrentOwner(t), th[t].maxv + 1)
    /\ Goto(t, [th[t] EXCEPT !.pc = "ctx_write", !.maxv = 0])
    /\ UNCHANGED <<phase, agent, n_actions, warm_start, store,
                   config_num_actions, restarts, ws_calls, last>>

\* pos = self._action_order[owner]; context[pos] = conf (197-199)
T_CtxWrite(t) ==
    /\ th[t].pc = "ctx_write"
    /\ LET pos == DictGet(action_order, CurrentOwner(t))
           conf == calculate_confidence(th[t].cands[th[t].i])
       IN  IF pos >= Len(th[t].ctx)
           THEN Goto(t, IdleThread)
           ELSE Goto(t, [th[t] EXCEPT
                            !.ctx = [@ EXCEPT ![pos + 1] = conf],
                            !.i = @ + 1,
                            !.pc = IF th[t].i + 1 > Len(th[t].cands)
                                   THEN "choose" ELSE "add_check"])
    /\ UNCHANGED <<phase, agent, n_actions, action_order, warm_start, store,
                   config_num_actions, restarts, ws_calls, last>>

\* the call of self._agent.choose (151)
T_ChooseEnter(t) ==
    /\ th[t].pc = "choose"
    /\ Goto(t, [th[t] EXCEPT !.pc = "in_choose"])
    /\ UNCHANGED <<phase, agent, n_actions, action_order, warm_start, store,
                   config_num_actions, restarts, ws_calls, last>>

\* policy.choose returns or raises; the rest of choose_action (151-159)
T_ChooseReturn(t) ==
    /\ th[t].pc = "in_choose"
    /\ \E raised \in BOOLEAN :
         agent' = IF raised THEN agent ELSE agent_choose(agent, th[t].t_id)
    /\ Goto(t, IdleThread)
    /\ UNCHANGED <<phase, n_actions, action_order, warm_start, store,
                   config_num_actions, restarts, ws_calls, last>>

\* record_transition up to the call of the first self._agent.observe (165-175)
T_RecordTransition(t) ==
    /\ phase = "Ready"
    /\ th[t].pc = "idle"
    /\ \E id_pre \in TrialIds, id_post \in TrialIds :
         Goto(t, [IdleThread EXCEPT !.pc = "in_observe_pre",
                                    !.t_id = id_pre, !.t_id2 = id_post])
    /\ UNCHANGED <<phase, agent, n_actions, action_order, warm_start, store,
                   config_num_actions, restarts, ws_calls, last>>

\* the first observe returns and the second is called, or it raises (175-182)
T_ObservePreReturn(t) ==
    /\ th[t].pc = "in_observe_pre"
    /\ \E ok \in BOOLEAN :
         IF ok
         THEN /\ agent' = agent_observe(agent, th[t].t_id)
              /\ Goto(t, [th[t] EXCEPT !.pc = "in_observe_post"])
         ELSE /\ agent' = agent
              /\ Goto(t, IdleThread)
    /\ UNCHANGED <<phase, n_actions, action_order, warm_start, store,
                   config_num_actions, restarts, ws_calls, last>>

\* the second observe returns or raises (178-182)
T_ObservePostReturn(t) ==
    /\ th[t].pc = "in_observe_post"
    /\ \E ok \in BOOLEAN :
         agent' = IF ok THEN agent_observe(agent, th[t].t_id2) ELSE agent
    /\ Goto(t, IdleThread)
    /\ UNCHANGED <<phase, n_actions, action_order, warm_start, store,
                   config_num_actions, restarts, ws_calls, last>>

ThreadStep(t) ==
    \/ T_ChooseAction(t)
    \/ T_AddCheck(t)
    \/ T_AddMax(t)
    \/ T_AddWrite(t)
    \/ T_CtxWrite(t)
    \/ T_ChooseEnter(t)
    \/ T_ChooseReturn(t)
    \/ T_RecordTransition(t)
    \/ T_ObservePreReturn(t)
    \/ T_ObservePostReturn(t)

NextConc == LoadState \/ WarmStartOrchestrator \/ (\E t \in Threads : ThreadStep(t))

SpecConc == Init /\ [][NextConc]_vars

(***************************************************************************)
(* Properties                                                               *)
(***************************************************************************)
Injective(ao) == \A i, j \in DOMAIN ao : i # j => ao[i].idx # ao[j].idx

Contiguous(ao) == Values(ao) = 0..(Len(ao) - 1)

NoopAtZero(ao) == noop_action \in Keys(ao) /\ DictGet(ao, noop_action) = 0

IncreasingInOrder(ao) == \A i, j \in DOMAIN ao : i < j => ao[i].idx < ao[j].idx

Prefix(ao, n) == SubSeq(ao, 1, n)

\* C1: in an engine that has loaded its registry, the identity->slot mapping is
\* injective, its slots are exactly 0..n-1 with NOOP at slot 0 and they increase
\* in the order of first registration; within one engine no entry is changed or
\* removed by a handler, and every entry a handler adds gets max(existing)+1.
C1_RegistrySlots ==
    [][ /\ action_order' # <<>> =>
            /\ Injective(action_order')
            /\ Contiguous(action_order')
            /\ NoopAtZero(action_order')
            /\ IncreasingInOrder(action_order')
        /\ restarts' = restarts =>
            /\ Len(action_order) <= Len(action_order')
            /\ \A i \in DOMAIN action_order : action_order'[i] = action_order[i]
        /\ (restarts' = restarts /\ action_order # <<>>) =>
            \A i \in DOMAIN action_order' \ DOMAIN action_order :
                action_order'[i].idx = MaxOf(Values(Prefix(action_order', i - 1))) + 1
      ]_vars

\* two identities were registered by choose_action calls, beyond the loaded NOOP
C1_Witness ==
    /\ last.op = "choose_action"
    /\ Len(action_order) = 3
    /\ Len(last.before) = 2

\* C2: a call of __add_to_action_order__ with an identity the registry already
\* holds leaves the whole registry unchanged, and two calls with the same identity
\* leave it at the same slot.
C2_EnsureIdempotent ==
    /\ \A i \in DOMAIN last.log :
          last.log[i].name \in Keys(last.log[i].before) =>
              last.log[i].after = last.log[i].before
    /\ \A i, j \in DOMAIN last.log :
          (i < j /\ last.log[i].name = last.log[j].name) =>
              DictGet(last.log[i].after, last.log[i].name)
                  = DictGet(last.log[j].after, last.log[j].name)

\* one build registered an unseen identity and was then called with it again
C2_Witness ==
    /\ Len(last.log) = 2
    /\ last.log[1].name = last.log[2].name
    /\ last.log[1].name \notin Keys(last.log[1].before)

\* C3: under any interleaving of choose_action calls, no two identities end up
\* with the same slot and no identity's slot is ever changed once written.
C3_RegistrationSerialized ==
    [][ /\ Injective(action_order')
        /\ \A i \in DOMAIN action_order :
              /\ i \in DOMAIN action_order'
              /\ action_order'[i] = action_order[i]
      ]_vars

InPolicy(t) == th[t].pc \in {"in_choose", "in_observe_pre", "in_observe_post"}

\* C4: no two threads are inside policy.choose / policy.observe at the same time.
C4_PolicyMutualExclusion ==
    \A t1, t2 \in Threads : t1 # t2 => ~(InPolicy(t1) /\ InPolicy(t2))

\* C5: choose_action with no candidates (None or an empty list) returns None,
\* does not call policy.choose and changes neither the registry, the policy
\* state, the warm-start flag nor the persisted state.
C5_NoCandidatesNoEffect ==
    [][ (last'.op = "choose_action" /\ last'.input.kind \in {"None", "List"}
            /\ last'.input.list = <<>>) =>
          /\ last'.result = Returned(NoAction)
          /\ ~last'.chose
          /\ UNCHANGED <<action_order, agent, n_actions, warm_start, store>>
      ]_vars

\* choose_action was called with an empty list on an engine that already chose
C5_Witness ==
    /\ last.op = "choose_action"
    /\ last.input = [kind |-> "List", list |-> <<>>]
    /\ Len(action_order) >= 2
    /\ agent.pending # {}

\* the slot the policy chose yields no candidate: it maps to NOOP, to no
\* identity, or to an identity that owns none of the candidates
NoMatch(ao, idx, cands) ==
    LET sa == suggested_agent(ao, idx)
    IN  \/ sa = noop_action
        \/ sa = None
        \/ \A i \in DOMAIN cands : cands[i].agent_owner # sa

ChoseWithoutMatch ==
    /\ last.op = "choose_action"
    /\ last.input.list # <<>>
    /\ last.idx >= 0
    /\ NoMatch(action_order, last.idx, last.input.list)

C7_WarmStartOnce ==
    /\ ws_calls <= 1
    /\ (last.op = "warm_start_orchestrator" /\ last.flag_before = "False") =>
          /\ ~last.called
          /\ store = last.store_before

\* C8: a failed warm-start never leaves the engine Ready, and when data
\* generation or policy.warm_start failed the flag is still true and nothing
\* was persisted.
C8_WarmStartFailureFatal ==
    /\ (last.op = "warm_start_orchestrator" /\ last.outcome # "ok") =>
          phase # "Ready"
    /\ (last.op = "warm_start_orchestrator" /\ last.outcome \in {"datagen", "policy"}) =>
          /\ warm_start = "True"
          /\ store = last.store_before

\* C9: record_transition returns normally whatever policy.observe does.
C9_ObserveErrorsSwallowed ==
    last.op = "record_transition" => last.result = Returned(NoAction)

\* the first observe failed, for a trial the policy holds no pending choice of
C9_Witness ==
    /\ last.op = "record_transition"
    /\ ~last.observes[1].ok
    /\ last.observes[1].t_id \notin agent.pending

DistinctOwners(cands) ==
    \A i, j \in DOMAIN cands : i # j => cands[i].agent_owner # cands[j].agent_owner

\* C10: a build over the registry {NOOP: 0} with candidates of k distinct
\* skills succeeds with the context [0.1, conf_1, .., conf_k] and leaves the
\* registry {NOOP: 0, skill_1: 1, .., skill_k: k}.
C10_FreshRegistryBuild ==
    (/\ last.op = "choose_action"
     /\ last.input.list # <<>>
     /\ last.before = <<[name |-> noop_action, idx |-> 0]>>
     /\ DistinctOwners(last.input.list)) =>
        /\ last.built
        /\ Len(last.ctx) = Len(last.input.list) + 1
        /\ last.ctx[1] = noop_confidence
        /\ \A i \in DOMAIN last.input.list :
              last.ctx[i + 1] = last.input.list[i].confidence
        /\ action_order = <<[name |-> noop_action, idx |-> 0]>>
              \o [i \in DOMAIN last.input.list |->
                     [name |-> last.input.list[i].agent_owner, idx |-> i]]

\* C11: every context vector built has the length of the registry as it was
\* when the build started.
C11_ContextLengthIsSlotCount ==
    (last.op = "choose_action" /\ last.built) =>
        Len(last.ctx) = Len(last.before)

\* the skill at slot i and the candidates it owns in a candidate list
SkillAt(ao, slot) == suggested_agent(ao, slot)

Owned(cands, owner) == {j \in DOMAIN cands : cands[j].agent_owner = owner}

\* the confidence of the last candidate of the list that the owner owns
LastOwnedConfidence(cands, owner) ==
    cands[MaxOf(Owned(cands, owner))].confidence

ContextHolds(ctx, ao, cands) ==
    /\ ctx[DictGet(ao, noop_action) + 1] = noop_confidence
    /\ \A p \in DOMAIN ctx :
          p # DictGet(ao, noop_action) + 1 =>
              IF Owned(cands, SkillAt(ao, p - 1)) = {}
              THEN ctx[p] = 0
              ELSE ctx[p] = LastOwnedConfidence(cands, SkillAt(ao, p - 1))

\* C12: in every context vector built the no-op slot holds 0.1, the slot of a
\* skill that owns a candidate holds the confidence of that candidate (of the
\* last one in the list when it owns several), and every other slot holds 0.0; a build with no candidates gives a
\* vector whose only nonzero entry is 0.1 at the no-op slot.
C12_ContextContents ==
    /\ (last.op = "choose_action" /\ last.built) =>
          ContextHolds(last.ctx, action_order, last.input.list)
    /\ phase = "Ready" =>
          LET b == __build_context__(action_order, n_actions, <<>>)
          IN  /\ b.ok
              /\ b.ao = action_order
              /\ \A p \in DOMAIN b.ctx :
                    b.ctx[p] = IF p = DictGet(action_order, noop_action) + 1
                               THEN noop_confidence ELSE 0

\* a context was built over three slots with a candidate for the skill at slot 2
\* and none for the skill at slot 1
C12_Witness ==
    /\ last.op = "choose_action"
    /\ last.built
    /\ Len(last.before) = 3
    /\ Len(last.input.list) = 1
    /\ DictGet(action_order, last.input.list[1].agent_owner) = 2
    /\ last.ctx = <<noop_confidence, 0, last.input.list[1].confidence>>

\* C13: the state an engine saves holds its registry and its warm-start flag
\* as they are at the save, and an engine that loads a saved state holds the
\* saved registry and the saved flag.
C13_SaveLoadRoundTrip ==
    /\ (last.op = "warm_start_orchestrator" /\ last.outcome = "ok") =>
          /\ store.present
          /\ store.action_order = action_order
          /\ store.warm_start = warm_start
    /\ (last.op = "load_state" /\ store.present) =>
          /\ action_order = store.action_order
          /\ warm_start = store.warm_start

\* a new engine has loaded the state an earlier engine saved
C13_Witness ==
    /\ last.op = "load_state"
    /\ store.present
    /\ restarts >= 1

\* C14: load over an empty store succeeds with a fresh policy, the registry
\* {NOOP: 0} and the flag true; over a saved state it takes the saved policy,
\* registry and flag instead of the defaults.
C14_LoadDefaults ==
    last.op = "load_state" =>
        /\ phase = "Loaded"
        /\ n_actions = agent.num_actions
        /\ IF ~store.present
           THEN /\ agent = instantiate_from_file(config_num_actions)
                /\ action_order = <<[name |-> noop_action, idx |-> 0]>>
                /\ warm_start = "True"
           ELSE /\ agent = store.agent
                /\ action_order = store.action_order
                /\ warm_start = store.warm_start

\* an engine has loaded on a fresh installation
C14_Witness ==
    /\ last.op = "load_state"
    /\ ~store.present
    /\ phase = "Loaded"

LifecycleSteps ==
    {<<"Uninitialized", "Loaded">>, <<"Loaded", "Ready">>, <<"Loaded", "Failed">>,
     <<"Ready", "Uninitialized">>, <<"Failed", "Uninitialized">>}

\* C15: an engine goes Uninitialized -> Loaded -> Ready (or Failed) and only a
\* new process starts over; it becomes Ready only out of a warm-start that
\* succeeded and saved, with the flag false; policy.choose and policy.observe
\* are called on Ready engines only.
C15_LifecycleOrder ==
    [][ /\ phase' # phase => <<phase, phase'>> \in LifecycleSteps
        /\ (phase' = "Ready" /\ phase # "Ready") =>
              /\ last'.op = "warm_start_orchestrator"
              /\ last'.outcome = "ok"
              /\ last'.called
              /\ store' = get_orchestrator_state(agent', action_order', warm_start')
        /\ phase' = "Ready" =>
              /\ warm_start' = "False"
              /\ store'.present
              /\ store'.warm_start = "False"
        /\ (last' # last /\ (last'.chose \/ last'.observes # <<>>)) =>
              /\ phase = "Ready"
              /\ phase' = "Ready"
      ]_vars

\* a Ready engine has called policy.choose and, in a later call, policy.observe
C15_Witness ==
    /\ phase = "Ready"
    /\ last.op = "record_transition"
    /\ last.observes # <<>>
    /\ Len(action_order) >= 2

\* the registry the next engine over this store starts with
RegistryAfterRestart(st, cfg) == load_state(st, cfg).action_order

\* C16: a slot assignment survives a process restart: every identity the
\* engine holds when its process ends has the same slot in the registry the
\* next engine loads, and no other identity has that slot there.
C16_SlotsSurviveRestart ==
    [][ (phase = "Ready" /\ phase' = "Uninitialized") =>
          \A i \in DOMAIN action_order :
              /\ action_order[i].name
                    \in Keys(RegistryAfterRestart(store', config_num_actions'))
              /\ DictGet(RegistryAfterRestart(store', config_num_actions'),
                         action_order[i].name) = action_order[i].idx
      ]_vars

\* C17: every record_transition call delivers both observations, the
\* pre-transition one first and the post-transition one second, each with its
\* reward, also when the first observe fails.
C17_BothObservationsDelivered ==
    last.op = "record_transition" =>
        /\ Len(last.observes) = 2
        /\ last.observes[1].t_id = last.ids[1]
        /\ last.observes[2].t_id = last.ids[2]
        /\ last.observes[1].reward = __compute_pre_transition_reward__(NoCommand, NoCommand)
        /\ last.observes[2].reward = __compute_post_transition_reward__(NoCommand, NoCommand)

ReturnedNormally ==
    /\ last.op = "choose_action"
    /\ last.input.list # <<>>
    /\ last.result # Raised

\* C18: a choose_action call with candidates that returns normally never
\* returns None: it returns one of its candidates, owned by the skill (not
\* NOOP) registered at the slot the policy chose, or else the fallback Action
\* that proposes the original command.
C18_CandidateOrFallback ==
    ReturnedNormally =>
        /\ last.result.kind = "Action"
        /\ \/ last.result.action = Action(None, 0, last.command.command)
           \/ /\ \E i \in DOMAIN last.input.list :
                     last.input.list[i] = last.result.action
              /\ last.result.action.agent_owner # noop_action
              /\ last.result.action.agent_owner
                    = suggested_agent(action_order, last.idx)

\* the call returned the candidate of the skill at the chosen slot although the
\* list also held a candidate of another skill
C18_Witness ==
    /\ ReturnedNormally
    /\ last.result.action.agent_owner \in Skills
    /\ \E i \in DOMAIN last.input.list :
          last.input.list[i].agent_owner # last.result.action.agent_owner

\* C19: when choose_action returns a candidate, its confidence is the value
\* the policy saw in the context at the chosen slot.
C19_ReturnedConfidenceSeen ==
    (ReturnedNormally /\ last.result.action.agent_owner \in Skills) =>
        last.ctx[last.idx + 1] = last.result.action.confidence

\* C20: record_transition changes nothing but the policy state: registry,
\* cached dimensionality, warm-start flag, persisted state and lifecycle state
\* are as before the call.
C20_RecordTransitionFrame ==
    [][ last'.op = "record_transition" =>
          UNCHANGED <<action_order, n_actions, warm_start, store, phase>>
      ]_vars

\* record_transition ran, with a failing observe, on an engine whose registry
\* and policy state differ from the persisted ones
C20_Witness ==
    /\ last.op = "record_transition"
    /\ \E i \in DOMAIN last.observes : ~last.observes[i].ok
    /\ store.action_order # action_order
    /\ store.agent # agent

====
